---------------------------- MODULE Spec2Model ----------------------------
(***************************************************************************)
(* Model of src/fetch_replays.py and src/fetch_replay_ids.py, in three     *)
(* specifications over one set of variables:                               *)
(*   Spec     the replay-log interpreter parse_replay_log and the loop of  *)
(*            fetch_replays over one page that calls it;                   *)
(*   Retries  one call of get_with_retries and its caller's reaction;      *)
(*   Paging   the pagination loops of fetch_replays and fetch_replay_ids.  *)
(* Each specification keeps the variables of the other two fixed.          *)
(*                                                                         *)
(* A Python str is a sequence of one-character strings, so that split,     *)
(* strip, slicing, the `in' test and int() are computed as Python computes *)
(* them.  None is the empty tuple and a present value v is <<v>>.  A dict  *)
(* is a function whose DOMAIN is its key set; a defaultdict read-or-write  *)
(* of a missing key inserts the default.                                   *)
(*                                                                         *)
(* The name `defaultdict' (lines 103, 112) is read as                      *)
(* collections.defaultdict; the file does not import it.                   *)
(***************************************************************************)
EXTENDS Integers, Sequences, FiniteSets, TLC

(***************************************************************************)
(* Bounds                                                                  *)
(***************************************************************************)
\* longest log (number of lines) interpreted for one replay
MaxLines == 4
\* largest max_retries and delay fetch_replays hands to get_with_retries
MaxRetries == 4
MaxDelay == 2
\* latest uploadtime on the server, replays on one page of the search API,
\* and iterations of a pagination loop that are followed
MaxTime == 3
PageSize == 2
MaxPages == 4

(***************************************************************************)
(* Python str operations                                                   *)
(***************************************************************************)
None == <<>>
Some(v) == <<v>>

IsSpace(c) == c \in {" ", "\t"}

Digits == {"0", "1", "2", "3", "4", "5", "6", "7", "8", "9"}

DigitVal(c) ==
  CASE c = "0" -> 0 [] c = "1" -> 1 [] c = "2" -> 2 [] c = "3" -> 3
    [] c = "4" -> 4 [] c = "5" -> 5 [] c = "6" -> 6 [] c = "7" -> 7
    [] c = "8" -> 8 [] c = "9" -> 9

\* s[i:] with a 1-based i
Drop(s, i) == SubSeq(s, i, Len(s))

RECURSIVE LStrip(_)
LStrip(s) == IF s # <<>> /\ IsSpace(Head(s)) THEN LStrip(Tail(s)) ELSE s

RECURSIVE RStrip(_)
RStrip(s) ==
  IF s # <<>> /\ IsSpace(s[Len(s)]) THEN RStrip(SubSeq(s, 1, Len(s) - 1)) ELSE s

\* str.strip()
Strip(s) == RStrip(LStrip(s))

\* sub in s
Contains(s, sub) ==
  \E i \in 1..(Len(s) - Len(sub) + 1) : SubSeq(s, i, i + Len(sub) - 1) = sub

\* str.split(sep) for a one-character sep: always at least one piece
RECURSIVE Split(_, _)
Split(s, sep) ==
  IF \A i \in 1..Len(s) : s[i] # sep
    THEN <<s>>
    ELSE LET i == CHOOSE k \in 1..Len(s) :
                    s[k] = sep /\ \A j \in 1..(k - 1) : s[j] # sep
         IN  <<SubSeq(s, 1, i - 1)>> \o Split(Drop(s, i + 1), sep)

\* str.split() with no argument: the maximal runs of non-space characters
RECURSIVE SplitWs(_)
SplitWs(s) ==
  LET t == LStrip(s)
  IN  IF t = <<>>
        THEN <<>>
        ELSE LET n == IF \E k \in 1..Len(t) : IsSpace(t[k])
                        THEN (CHOOSE k \in 1..Len(t) :
                                IsSpace(t[k]) /\ \A j \in 1..(k - 1) : ~IsSpace(t[j])) - 1
                        ELSE Len(t)
             IN  <<SubSeq(t, 1, n)>> \o SplitWs(Drop(t, n + 1))

\* sep.join(pieces)
RECURSIVE Join(_, _)
Join(pieces, sep) ==
  IF pieces = <<>> THEN <<>>
  ELSE IF Len(pieces) = 1 THEN pieces[1]
  ELSE pieces[1] \o <<sep>> \o Join(Tail(pieces), sep)

RECURSIVE DigitsValue(_)
DigitsValue(s) ==
  IF s = <<>> THEN 0 ELSE 10 * DigitsValue(SubSeq(s, 1, Len(s) - 1)) + DigitVal(s[Len(s)])

\* int(s): Some(n), or None where Python raises ValueError
\* (surrounding spaces and one sign are accepted, as in Python)
int(s) ==
  LET t == Strip(s)
      signed == t # <<>> /\ t[1] \in {"-", "+"}
      d == IF signed THEN Tail(t) ELSE t
  IN  IF d = <<>> \/ \E i \in 1..Len(d) : d[i] \notin Digits
        THEN None
        ELSE Some(IF signed /\ t[1] = "-" THEN 0 - DigitsValue(d) ELSE DigitsValue(d))

\* parse_log_header: [err, player_id, nickname]; err is the IndexError of
\* player_data[0].split()[-1] when nothing but spaces precedes the first ':'
parse_log_header(header) ==
  LET player_data == Split(header, ":")
      words == SplitWs(player_data[1])
  IN  IF words = <<>>
        THEN [err |-> TRUE, player_id |-> <<>>, nickname |-> <<>>]
        ELSE LET player_id == words[Len(words)]
             IN  [err |-> FALSE,
                  player_id |-> SubSeq(player_id, 1, IF Len(player_id) < 2 THEN Len(player_id) ELSE 2),
                  nickname |-> Strip(Join(Tail(player_data), ":"))]

(***************************************************************************)
(* The interpreter's tables (parse_replay_log, lines 103-130)              *)
(***************************************************************************)
\* the default of player_stats
NewPlayer ==
  [name |-> None, elo |-> None, team_order |-> <<>>, team_size |-> None, spikes |-> None]

\* the default of pokemon_stats[player_id]
NewPokemon ==
  [species |-> None, moves |-> <<>>, damage_dealt |-> 0, damage_received |-> 0,
   status_dealt |-> 0, status_received |-> 0, n_ko_dealt |-> 0, n_ko_received |-> 0,
   turns_on_field |-> 0]

\* the locals of parse_replay_log before the first line; new_hp is unbound
\* until a -damage or -heal line assigns it, and exc is the exception in flight
InitLocals ==
  [player_stats |-> <<>>, pokemon_stats |-> <<>>, active_pokemon |-> <<>>,
   n_turns |-> 0, winner |-> None, new_hp |-> None, exc |-> "none"]

\* parts[i], with Python's 0-based index
P(parts, i) == parts[i + 1]

Raise(S, e) == [S EXCEPT !.exc = e]

\* player_stats[player_id] of a defaultdict: the entry, inserted if missing
GetPlayer(S, player_id) ==
  IF player_id \in DOMAIN S.player_stats THEN S.player_stats[player_id] ELSE NewPlayer

PutPlayer(S, player_id, rec) ==
  [S EXCEPT !.player_stats = (player_id :> rec) @@ S.player_stats]

\* pokemon_stats[player_id], {} when missing
Side(S, player_id) ==
  IF player_id \in DOMAIN S.pokemon_stats THEN S.pokemon_stats[player_id] ELSE <<>>

\* pokemon_stats[player_id][nickname] of the nested defaultdict
GetPokemon(S, player_id, nickname) ==
  IF nickname \in DOMAIN Side(S, player_id) THEN Side(S, player_id)[nickname] ELSE NewPokemon

PutPokemon(S, player_id, nickname, rec) ==
  [S EXCEPT !.pokemon_stats =
     (player_id :> ((nickname :> rec) @@ Side(S, player_id))) @@ S.pokemon_stats]

\* pokemon_stats[player_id][nickname][field] += k
AddTo(S, player_id, nickname, field, k) ==
  PutPokemon(S, player_id, nickname,
             [GetPokemon(S, player_id, nickname) EXCEPT ![field] = @ + k])

\* for player_id in active_pokemon: ...['turns_on_field'] += 1
CreditTurn(S) ==
  LET act == S.active_pokemon
  IN  [S EXCEPT !.pokemon_stats =
         [player_id \in DOMAIN S.pokemon_stats \cup DOMAIN act |->
            IF player_id \in DOMAIN act
              THEN (act[player_id].nickname :>
                      [GetPokemon(S, player_id, act[player_id].nickname)
                         EXCEPT !.turns_on_field = @ + 1])
                   @@ Side(S, player_id)
              ELSE S.pokemon_stats[player_id]]]

\* 'p1' if player_id == 'p2' else 'p2'
Opponent(player_id) == IF player_id = <<"p", "2">> THEN <<"p", "1">> ELSE <<"p", "2">>

(***************************************************************************)
(* One handler per tag (lines 141-225): the locals after the line, with    *)
(* exc set when the line raises                                            *)
(***************************************************************************)
\* lines 141-153
on_player(S, parts) ==
  IF Len(parts) < 3 THEN Raise(S, "IndexError")
  ELSE
    LET player_id == P(parts, 2)
        S0 == PutPlayer(S, player_id, GetPlayer(S, player_id))
        noName == GetPlayer(S0, player_id).name \in {None, Some(<<>>)}
        S1 == IF noName
                THEN PutPlayer(S0, player_id,
                               [GetPlayer(S0, player_id) EXCEPT !.name = Some(P(parts, 3))])
                ELSE S0
        noElo == GetPlayer(S1, player_id).elo \in {None, Some(0)}
    IN  IF noName /\ Len(parts) < 4 THEN Raise(S0, "IndexError")
        ELSE IF ~noElo THEN S1
        ELSE IF Len(parts) < 6 THEN Raise(S1, "IndexError")
        ELSE IF int(P(parts, 5)) = None THEN S1
        ELSE PutPlayer(S1, player_id,
                       [GetPlayer(S1, player_id) EXCEPT !.elo = int(P(parts, 5))])

\* lines 154-156
on_teamsize(S, parts) ==
  IF Len(parts) < 4 THEN Raise(S, "IndexError")
  ELSE IF int(P(parts, 3)) = None THEN Raise(S, "ValueError")
  ELSE PutPlayer(S, P(parts, 2),
                 [GetPlayer(S, P(parts, 2)) EXCEPT !.team_size = int(P(parts, 3))])

\* if species not in team_order: team_order.append(species)  (lines 164-165)
register(team_order, species) ==
  IF \E k \in 1..Len(team_order) : team_order[k] = species
    THEN team_order
    ELSE Append(team_order, species)

\* lines 157-167
on_switch(S, parts) ==
  IF Len(parts) < 3 \/ parse_log_header(P(parts, 2)).err \/ Len(parts) < 5
    THEN Raise(S, "IndexError")
  ELSE
    LET h == parse_log_header(P(parts, 2))
        species == Split(P(parts, 3), ",")[1]
        hp == int(Split(P(parts, 4), "/")[1])
        S1 == PutPokemon(S, h.player_id, h.nickname,
                         [GetPokemon(S, h.player_id, h.nickname) EXCEPT !.species = Some(species)])
        S2 == PutPlayer(S1, h.player_id,
                        [GetPlayer(S1, h.player_id) EXCEPT
                           !.team_order = register(@, species)])
    IN  IF hp = None THEN Raise(S, "ValueError")
        ELSE [S2 EXCEPT !.active_pokemon =
                (h.player_id :> [nickname |-> h.nickname, hp |-> hp[1]]) @@ @]

\* lines 168-171
on_turn(S, parts) == CreditTurn([S EXCEPT !.n_turns = @ + 1])

\* lines 172-175
on_win(S, parts) ==
  IF Len(parts) < 3 THEN Raise(S, "IndexError")
  ELSE CreditTurn([S EXCEPT !.winner = Some(P(parts, 2))])

\* lines 176-179
on_move(S, parts) ==
  IF Len(parts) < 3 \/ parse_log_header(P(parts, 2)).err \/ Len(parts) < 4
    THEN Raise(S, "IndexError")
  ELSE
    LET h == parse_log_header(P(parts, 2))
        pokemon_move == P(parts, 3)
        mon == GetPokemon(S, h.player_id, h.nickname)
        count == IF pokemon_move \in DOMAIN mon.moves THEN mon.moves[pokemon_move] ELSE 0
    IN  PutPokemon(S, h.player_id, h.nickname,
                   [mon EXCEPT !.moves = (pokemon_move :> (count + 1)) @@ @])

\* a variant of on_status that attributes a status whatever the number of fields
on_status_any_length(S, parts) ==
  IF Len(parts) < 3 \/ parse_log_header(P(parts, 2)).err THEN Raise(S, "IndexError")
  ELSE IF Opponent(parse_log_header(P(parts, 2)).player_id) \notin DOMAIN S.active_pokemon
    THEN Raise(S, "KeyError")
  ELSE AddTo(AddTo(S, Opponent(parse_log_header(P(parts, 2)).player_id),
                   S.active_pokemon[Opponent(parse_log_header(P(parts, 2)).player_id)].nickname,
                   "status_dealt", 1),
             parse_log_header(P(parts, 2)).player_id,
             parse_log_header(P(parts, 2)).nickname, "status_received", 1)

\* lines 180-187
on_status(S, parts) ==
  IF Len(parts) # 4 THEN S
  ELSE IF parse_log_header(P(parts, 2)).err THEN Raise(S, "IndexError")
  ELSE
    LET h == parse_log_header(P(parts, 2))
        attacker_player_id == Opponent(h.player_id)
    IN  IF attacker_player_id \notin DOMAIN S.active_pokemon THEN Raise(S, "KeyError")
        ELSE AddTo(AddTo(S, attacker_player_id,
                         S.active_pokemon[attacker_player_id].nickname, "status_dealt", 1),
                   h.player_id, h.nickname, "status_received", 1)

fnt == <<"f", "n", "t">>

\* a variant of credit_ko that forgets the knockout
credit_ko_forgotten(S, attacker_player_id, attacker_nickname) == S

\* lines 195-196: a faint marker credits a knockout to the attacker
credit_ko(S, attacker_player_id, attacker_nickname) ==
  AddTo(S, attacker_player_id, attacker_nickname, "n_ko_dealt", 1)

\* a variant of tally_damage that gives the victim old_hp, not the difference
tally_damage_unequal(S, attacker_player_id, attacker_nickname, player_id, nickname, old_hp, new_hp) ==
  AddTo(AddTo(S, attacker_player_id, attacker_nickname, "damage_dealt", old_hp - new_hp),
        player_id, nickname, "damage_received", old_hp)

\* lines 200-203: the same old_hp - new_hp to the attacker and to the named victim
tally_damage(S, attacker_player_id, attacker_nickname, player_id, nickname, old_hp, new_hp) ==
  AddTo(AddTo(S, attacker_player_id, attacker_nickname, "damage_dealt", old_hp - new_hp),
        player_id, nickname, "damage_received", old_hp - new_hp)

\* new_hp = int(text), or the ValueError
assign_new_hp(S, text) ==
  IF int(text) = None THEN Raise(S, "ValueError") ELSE [S EXCEPT !.new_hp = int(text)]

\* lines 195-197: a direct payload with a faint marker
damage_fnt(S, parts, attacker_player_id, attacker_nickname) ==
  IF Len(parts) = 4 /\ Contains(P(parts, 3), fnt)
    THEN assign_new_hp(credit_ko(S, attacker_player_id, attacker_nickname),
                       SplitWs(P(parts, 3))[1])
    ELSE S

\* lines 198-199: a direct payload "<hp>/<max>"
damage_slash(S, parts) ==
  IF S.exc = "none" /\ Len(parts) = 4 /\ Contains(P(parts, 3), <<"/">>)
    THEN assign_new_hp(S, Split(P(parts, 3), "/")[1])
    ELSE S

\* lines 200-203: new_hp is read whether or not this line assigned it
damage_direct(S, parts, attacker_player_id, attacker_nickname, player_id, nickname, old_hp) ==
  IF S.exc # "none" \/ Len(parts) # 4 THEN S
  ELSE IF S.new_hp = None THEN Raise(S, "UnboundLocalError")
  ELSE tally_damage(S, attacker_player_id, attacker_nickname, player_id, nickname,
                    old_hp, S.new_hp[1])

\* lines 205-206: indirect damage has a 5th section
damage_indirect(S, parts) ==
  IF S.exc = "none" /\ Len(parts) = 5
    THEN assign_new_hp(S, Split(P(parts, 3), "/")[1])
    ELSE S

\* line 207
damage_track(S, player_id, nickname) ==
  IF S.exc # "none" THEN S
  ELSE IF S.new_hp = None THEN Raise(S, "UnboundLocalError")
  ELSE [S EXCEPT !.active_pokemon =
          (player_id :> [nickname |-> nickname, hp |-> S.new_hp[1]]) @@ @]

\* lines 189-207, once the header is parsed
damage_of(S, parts, player_id, nickname) ==
  IF Opponent(player_id) \notin DOMAIN S.active_pokemon
       \/ player_id \notin DOMAIN S.active_pokemon
    THEN Raise(S, "KeyError")
    ELSE damage_track(
           damage_indirect(
             damage_direct(
               damage_slash(
                 damage_fnt(S, parts, Opponent(player_id),
                            S.active_pokemon[Opponent(player_id)].nickname),
                 parts),
               parts, Opponent(player_id), S.active_pokemon[Opponent(player_id)].nickname,
               player_id, nickname, S.active_pokemon[player_id].hp),
             parts),
           player_id, nickname)

\* lines 188-207
on_damage(S, parts) ==
  IF Len(parts) < 3 \/ parse_log_header(P(parts, 2)).err THEN Raise(S, "IndexError")
  ELSE damage_of(S, parts, parse_log_header(P(parts, 2)).player_id,
                 parse_log_header(P(parts, 2)).nickname)

\* lines 208-211
on_heal(S, parts) ==
  IF Len(parts) < 3 \/ parse_log_header(P(parts, 2)).err \/ Len(parts) < 4
    THEN Raise(S, "IndexError")
  ELSE
    LET h == parse_log_header(P(parts, 2))
        H1 == assign_new_hp(S, Split(P(parts, 3), "/")[1])
    IN  IF H1.exc # "none" THEN H1
        ELSE [H1 EXCEPT !.active_pokemon =
                (h.player_id :> [nickname |-> h.nickname, hp |-> H1.new_hp[1]]) @@ @]

\* a variant of on_faint that counts the faint in the wrong field
on_faint_wrong_field(S, parts) ==
  IF Len(parts) < 3 \/ parse_log_header(P(parts, 2)).err THEN Raise(S, "IndexError")
  ELSE LET h == parse_log_header(P(parts, 2))
       IN  AddTo(S, h.player_id, h.nickname, "n_ko_dealt", 1)

\* lines 212-214
on_faint(S, parts) ==
  IF Len(parts) < 3 \/ parse_log_header(P(parts, 2)).err THEN Raise(S, "IndexError")
  ELSE LET h == parse_log_header(P(parts, 2))
       IN  AddTo(S, h.player_id, h.nickname, "n_ko_received", 1)

\* lines 215-219
on_sidestart(S, parts) ==
  IF Len(parts) < 3 \/ parse_log_header(P(parts, 2)).err THEN Raise(S, "IndexError")
  ELSE IF Opponent(parse_log_header(P(parts, 2)).player_id) \notin DOMAIN S.active_pokemon
    THEN Raise(S, "KeyError")
  ELSE S

\* lines 221-222
on_sideend(S, parts) ==
  IF Len(parts) < 6 \/ parse_log_header(P(parts, 5)).err THEN Raise(S, "IndexError") ELSE S

(***************************************************************************)
(* Tags and the log lines the interpreter is run on.  A line is given as   *)
(* its parts, line.strip().split('|'): parts[0] is the empty text before   *)
(* the leading '|'.                                                        *)
(***************************************************************************)
t_player    == <<"p", "l", "a", "y", "e", "r">>
t_teamsize  == <<"t", "e", "a", "m", "s", "i", "z", "e">>
t_switch    == <<"s", "w", "i", "t", "c", "h">>
t_drag      == <<"d", "r", "a", "g">>
t_turn      == <<"t", "u", "r", "n">>
t_win       == <<"w", "i", "n">>
t_move      == <<"m", "o", "v", "e">>
t_status    == <<"-", "s", "t", "a", "t", "u", "s">>
t_damage    == <<"-", "d", "a", "m", "a", "g", "e">>
t_heal      == <<"-", "h", "e", "a", "l">>
t_faint     == <<"f", "a", "i", "n", "t">>
t_sidestart == <<"-", "s", "i", "d", "e", "s", "t", "a", "r", "t">>
t_sideend   == <<"-", "s", "i", "d", "e", "e", "n", "d">>
t_weather   == <<"w", "e", "a", "t", "h", "e", "r">>

HandledTags ==
  {t_player, t_teamsize, t_switch, t_drag, t_turn, t_win, t_move, t_status,
   t_damage, t_heal, t_faint, t_sidestart, t_sideend}

p1 == <<"p", "1">>
p2 == <<"p", "2">>
nickA == <<"A">>
nickB == <<"B">>
nickC == <<"C">>
p1a_A == <<"p", "1", "a", ":", " ", "A">>
p1a_B == <<"p", "1", "a", ":", " ", "B">>
p2a_C == <<"p", "2", "a", ":", " ", "C">>
Tackle == <<"T">>

\* |switch|p1a: A|X, M|3/3
L_switch_A == <<<<>>, t_switch, p1a_A, <<"X", ",", " ", "M">>, <<"3", "/", "3">>>>
\* |switch|p1a: B|Y|1/3
L_switch_B == <<<<>>, t_switch, p1a_B, <<"Y">>, <<"1", "/", "3">>>>
\* |drag|p1a: B|X, F|3/3      (a second nickname of species X)
L_drag_B == <<<<>>, t_drag, p1a_B, <<"X", ",", " ", "F">>, <<"3", "/", "3">>>>
\* |switch|p2a: C|Z|3/3
L_switch_C == <<<<>>, t_switch, p2a_C, <<"Z">>, <<"3", "/", "3">>>>
\* |switch|p1a: A            (too few fields)
L_switch_short == <<<<>>, t_switch, p1a_A>>
\* |turn|1
L_turn == <<<<>>, t_turn, <<"1">>>>
\* |win|Al
L_win == <<<<>>, t_win, <<"A", "l">>>>
\* |move|p1a: A|T
L_move_A == <<<<>>, t_move, p1a_A, Tackle>>
\* |move|p1a: B|T
L_move_B == <<<<>>, t_move, p1a_B, Tackle>>
\* |-status|p2a: C|brn
L_status_C == <<<<>>, t_status, p2a_C, <<"b", "r", "n">>>>
\* |-status|p2a: C|psn|[from]     (a status with a qualifying field)
L_status_C_from == <<<<>>, t_status, p2a_C, <<"p", "s", "n">>, <<"[", "f", "r", "o", "m", "]">>>>
\* |-damage|p1a: A|1/3
L_damage_A1 == <<<<>>, t_damage, p1a_A, <<"1", "/", "3">>>>
\* |-damage|p1a: A|3/3
L_damage_A3 == <<<<>>, t_damage, p1a_A, <<"3", "/", "3">>>>
\* |-damage|p1a: B|2/3
L_damage_B2 == <<<<>>, t_damage, p1a_B, <<"2", "/", "3">>>>
\* |-damage|p2a: C|0 fnt
L_damage_C_fnt == <<<<>>, t_damage, p2a_C, <<"0", " ", "f", "n", "t">>>>
\* |-damage|p2a: C|2/3|[from] psn
L_damage_C_psn == <<<<>>, t_damage, p2a_C, <<"2", "/", "3">>, <<"[", "f", "r", "o", "m", "]">>>>
\* |-damage|p2a: C|0 fnt|[from]   (indirect damage that faints)
L_damage_C_fnt_from ==
  <<<<>>, t_damage, p2a_C, <<"0", " ", "f", "n", "t">>, <<"[", "f", "r", "o", "m", "]">>>>
\* |-damage|p1a: A|??          (neither '/' nor 'fnt')
L_damage_bad == <<<<>>, t_damage, p1a_A, <<"?", "?">>>>
\* |-heal|p1a: A|3/3
L_heal_A == <<<<>>, t_heal, p1a_A, <<"3", "/", "3">>>>
\* |faint|p2a: C
L_faint_C == <<<<>>, t_faint, p2a_C>>
\* |faint|p1a: B
L_faint_B == <<<<>>, t_faint, p1a_B>>
\* |-sidestart|p1: Al|Spikes
L_sidestart == <<<<>>, t_sidestart, <<"p", "1", ":", " ", "A", "l">>, <<"S">>>>
\* |-sideend|p1: Al|Spikes
L_sideend == <<<<>>, t_sideend, <<"p", "1", ":", " ", "A", "l">>, <<"S">>>>
\* |player|p1|Al|1||1500
L_player == <<<<>>, t_player, p1, <<"A", "l">>, <<"1">>, <<>>, <<"1", "5", "0", "0">>>>
\* |teamsize|p1|six
L_teamsize_bad == <<<<>>, t_teamsize, p1, <<"s", "i", "x">>>>
\* |weather|Sandstorm
L_weather == <<<<>>, t_weather, <<"S">>>>
\* the empty line
L_blank == <<<<>>>>

\* the side and nickname a faint line of Lines names, as written in the line
FaintNames(parts) ==
  CASE parts = L_faint_C -> <<p2, nickC>>
    [] parts = L_faint_B -> <<p1, nickB>>

Lines ==
  {L_switch_A, L_switch_B, L_drag_B, L_switch_C, L_switch_short, L_turn, L_win,
   L_move_A, L_move_B, L_status_C, L_damage_A1, L_damage_A3, L_damage_B2,
   L_damage_C_fnt, L_damage_C_psn, L_damage_bad, L_heal_A, L_faint_C, L_faint_B,
   L_sidestart, L_sideend, L_player, L_teamsize_bad, L_weather, L_blank,
   L_status_C_from, L_damage_C_fnt_from}

\* the replays of one page of the search API (fetch_replays, data)
data == <<"r1", "r2">>

(***************************************************************************)
(* State                                                                   *)
(***************************************************************************)
VARIABLES
  pc,              \* "batch": fetch_replays between two replays (line 313);
                   \* "loop": inside parse_replay_log's for loop (line 132);
                   \* "aborted": an exception left fetch_replays; "written": to_csv ran
  exc,             \* the exception that aborted the run, or "none"
  done,            \* number of replays of data whose parse_replay_log returned
  results,         \* what those calls returned ({} is <<>>)
  n_lines,         \* lines of the current log consumed
  eof,             \* the for loop of line 132 ran out of lines
  has_log,         \* the document being interpreted has a 'log' field (line 132)
  player_stats, pokemon_stats, active_pokemon, n_turns, winner, new_hp,
  faints           \* history: faint lines processed, per <<player_id, nickname>>

\* one call of get_with_retries and what its caller makes of the result
VARIABLES
  caller,          \* the function that called get_with_retries
  max_retries,     \* the call's argument max_retries
  delay,           \* the call's argument delay
  rt_pc,           \* "call", "try" (line 50), "exhausted" (line 58), "returned",
                   \* "done" (the caller has reacted)
  attempt,         \* the loop variable of line 49, 0 before the loop
  resp,            \* what get_with_retries returned: None or Some("response")
  requests,        \* history: requests.get calls of this call
  failed,          \* history: those that raised
  slept,           \* history: the time.sleep arguments of this call, in order
  ret              \* what the caller did: "pending", "empty_record" ({}),
                   \* "interpret" (parse_replay_log goes on to line 97),
                   \* "return_None" or "page" (fetch_replays, lines 293, 295)

\* one run of fetch_replays or of fetch_replay_ids against a search API
VARIABLES
  prog,            \* the function that runs
  api_inclusive,   \* the API returns the replays uploaded at or before `before'
                   \* (TRUE) or strictly before it (FALSE)
  uploadtime,      \* the uploadtime of every replay of the format on the server
  start_unix,      \* utc_timestamp(start_date)
  end_unix,        \* utc_timestamp(end_date)
  before,          \* the cursor
  pg_pc,           \* "while", "parse" (fetch_replays, lines 313-315), "write",
                   \* "finished" (the loop condition failed), "empty" (empty batch),
                   \* "failed" (no response), "aborted" (an exception left the function)
  page_data,       \* `data' after the filter: the replays of the page kept
  temp,            \* the smallest uploadtime of the page
  unparsed,        \* replays of page_data not yet given to parse_replay_log
  csv,             \* the rows of the CSV file: how often each replay was written
  n_pages          \* iterations of the while loop begun

interp_vars ==
  <<pc, exc, done, results, n_lines, eof, has_log, player_stats, pokemon_stats,
    active_pokemon, n_turns, winner, new_hp, faints>>

retry_vars ==
  <<caller, max_retries, delay, rt_pc, attempt, resp, requests, failed, slept, ret>>

page_vars ==
  <<prog, api_inclusive, uploadtime, start_unix, end_unix, before, pg_pc, page_data,
    temp, unparsed, csv, n_pages>>

vars == <<interp_vars, retry_vars, page_vars>>

\* no call of get_with_retries is followed
RetryIdle ==
  /\ caller = "nobody"
  /\ max_retries = 0
  /\ delay = 0
  /\ rt_pc = "idle"
  /\ attempt = 0
  /\ resp = None
  /\ requests = 0
  /\ failed = 0
  /\ slept = <<>>
  /\ ret = "pending"

\* no pagination loop is followed
PagingIdle ==
  /\ prog = "none"
  /\ api_inclusive = FALSE
  /\ uploadtime = <<>>
  /\ start_unix = 0
  /\ end_unix = 0
  /\ before = 0
  /\ pg_pc = "idle"
  /\ page_data = {}
  /\ temp = 0
  /\ unparsed = {}
  /\ csv = <<>>
  /\ n_pages = 0

\* the interpreter is not followed
InterpreterIdle ==
  /\ pc = "idle"
  /\ exc = "none"
  /\ done = 0
  /\ results = <<>>
  /\ n_lines = 0
  /\ eof = FALSE
  /\ has_log = TRUE
  /\ player_stats = InitLocals.player_stats
  /\ pokemon_stats = InitLocals.pokemon_stats
  /\ active_pokemon = InitLocals.active_pokemon
  /\ n_turns = InitLocals.n_turns
  /\ winner = InitLocals.winner
  /\ new_hp = InitLocals.new_hp
  /\ faints = <<>>

Locals ==
  [player_stats |-> player_stats, pokemon_stats |-> pokemon_stats,
   active_pokemon |-> active_pokemon, n_turns |-> n_turns, winner |-> winner,
   new_hp |-> new_hp, exc |-> "none"]

SetLocals(S) ==
  /\ player_stats' = S.player_stats
  /\ pokemon_stats' = S.pokemon_stats
  /\ active_pokemon' = S.active_pokemon
  /\ n_turns' = S.n_turns
  /\ winner' = S.winner
  /\ new_hp' = S.new_hp

Init ==
  /\ pc = "batch"
  /\ exc = "none"
  /\ done = 0
  /\ results = <<>>
  /\ n_lines = 0
  /\ eof = FALSE
  /\ has_log = TRUE
  /\ player_stats = InitLocals.player_stats
  /\ pokemon_stats = InitLocals.pokemon_stats
  /\ active_pokemon = InitLocals.active_pokemon
  /\ n_turns = InitLocals.n_turns
  /\ winner = InitLocals.winner
  /\ new_hp = InitLocals.new_hp
  /\ faints = <<>>
  /\ RetryIdle
  /\ PagingIdle

(***************************************************************************)
(* fetch_replays: the loop over one page (lines 313-325)                   *)
(***************************************************************************)
\* parse_replay_log returns {} (lines 93-95, 97-101): no response after the
\* retries, or a body that is not JSON; d.update({}) and the next replay
FetchFailed ==
  /\ pc = "batch"
  /\ done < Len(data)
  /\ done' = done + 1
  /\ results' = Append(results, <<>>)
  /\ UNCHANGED <<pc, exc, n_lines, eof, has_log, player_stats, pokemon_stats,
                 active_pokemon, n_turns, winner, new_hp, faints>>
  /\ UNCHANGED <<retry_vars, page_vars>>

\* the replay was fetched: fresh tables and locals (lines 103-130); the
\* document has a 'log' field or has none (line 132, data.get('log', ''))
StartParse ==
  /\ pc = "batch"
  /\ done < Len(data)
  /\ pc' = "loop"
  /\ n_lines' = 0
  /\ eof' = FALSE
  /\ has_log' \in BOOLEAN
  /\ SetLocals(InitLocals)
  /\ faints' = <<>>
  /\ UNCHANGED <<exc, done, results>>
  /\ UNCHANGED <<retry_vars, page_vars>>

\* every replay of the page is parsed: the page is appended to the CSV (322-325)
WriteCsv ==
  /\ pc = "batch"
  /\ done = Len(data)
  /\ pc' = "written"
  /\ UNCHANGED <<exc, done, results, n_lines, eof, has_log, player_stats, pokemon_stats,
                 active_pokemon, n_turns, winner, new_hp, faints>>
  /\ UNCHANGED <<retry_vars, page_vars>>

(***************************************************************************)
(* parse_replay_log: one line of the log (lines 132-225).  Nothing catches *)
(* an exception of a handler, neither parse_replay_log nor the loop of     *)
(* fetch_replays (313-315): it ends the run.                               *)
(***************************************************************************)
Step(S) ==
  /\ pc = "loop"
  /\ n_lines < (IF has_log THEN MaxLines ELSE 1)
  /\ n_lines' = n_lines + 1
  /\ SetLocals(S)
  /\ exc' = S.exc
  /\ pc' = IF S.exc = "none" THEN "loop" ELSE "aborted"
  /\ UNCHANGED <<done, results, eof, has_log>>
  /\ UNCHANGED <<retry_vars, page_vars>>

\* line 132: the lines of the log; ''.split('\n') is [''], so a document
\* without a 'log' field is read as one empty line
LogLines == IF has_log THEN Lines ELSE {L_blank}

Tagged(parts, tag) == Len(parts) > 1 /\ P(parts, 1) = tag

\* lines 135-136
Blank ==
  \E parts \in LogLines : Len(parts) = 1 /\ Step(Locals) /\ UNCHANGED faints

Player ==
  \E parts \in LogLines :
    Tagged(parts, t_player) /\ Step(on_player(Locals, parts)) /\ UNCHANGED faints

Teamsize ==
  \E parts \in LogLines :
    Tagged(parts, t_teamsize) /\ Step(on_teamsize(Locals, parts)) /\ UNCHANGED faints

SwitchOrDrag ==
  \E parts \in LogLines :
    /\ Tagged(parts, t_switch) \/ Tagged(parts, t_drag)
    /\ Step(on_switch(Locals, parts))
    /\ UNCHANGED faints

Turn ==
  \E parts \in LogLines :
    Tagged(parts, t_turn) /\ Step(on_turn(Locals, parts)) /\ UNCHANGED faints

Win ==
  \E parts \in LogLines :
    Tagged(parts, t_win) /\ Step(on_win(Locals, parts)) /\ UNCHANGED faints

Move ==
  \E parts \in LogLines :
    Tagged(parts, t_move) /\ Step(on_move(Locals, parts)) /\ UNCHANGED faints

Status ==
  \E parts \in LogLines :
    Tagged(parts, t_status) /\ Step(on_status(Locals, parts)) /\ UNCHANGED faints

Damage ==
  \E parts \in LogLines :
    Tagged(parts, t_damage) /\ Step(on_damage(Locals, parts)) /\ UNCHANGED faints

Heal ==
  \E parts \in LogLines :
    Tagged(parts, t_heal) /\ Step(on_heal(Locals, parts)) /\ UNCHANGED faints

\* a faint line that did not raise is counted for the combatant it names
Faint ==
  \E parts \in LogLines :
    /\ Tagged(parts, t_faint)
    /\ Step(on_faint(Locals, parts))
    /\ faints' =
         IF on_faint(Locals, parts).exc = "none"
           THEN LET key == FaintNames(parts)
                IN  (key :> (IF key \in DOMAIN faints THEN faints[key] ELSE 0) + 1) @@ faints
           ELSE faints

SideStart ==
  \E parts \in LogLines :
    Tagged(parts, t_sidestart) /\ Step(on_sidestart(Locals, parts)) /\ UNCHANGED faints

SideEnd ==
  \E parts \in LogLines :
    Tagged(parts, t_sideend) /\ Step(on_sideend(Locals, parts)) /\ UNCHANGED faints

\* lines 224-225 and the tags no branch names
Ignored ==
  \E parts \in LogLines :
    /\ Len(parts) > 1
    /\ P(parts, 1) \notin HandledTags
    /\ Step(Locals)
    /\ UNCHANGED faints

\* lines 227-238: the names p1_name ... p2_team of the row are bound nowhere
\* in the file; building the row raises NameError and nothing is returned.
\* str.split gives at least one piece, so at least one line was read.
EndOfLog ==
  /\ pc = "loop"
  /\ n_lines >= 1
  /\ eof' = TRUE
  /\ exc' = "NameError"
  /\ pc' = "aborted"
  /\ UNCHANGED <<done, results, n_lines, has_log, player_stats, pokemon_stats,
                 active_pokemon, n_turns, winner, new_hp, faints>>
  /\ UNCHANGED <<retry_vars, page_vars>>

Next ==
  \/ FetchFailed
  \/ StartParse
  \/ WriteCsv
  \/ Blank
  \/ Player
  \/ Teamsize
  \/ SwitchOrDrag
  \/ Turn
  \/ Win
  \/ Move
  \/ Status
  \/ Damage
  \/ Heal
  \/ Faint
  \/ SideStart
  \/ SideEnd
  \/ Ignored
  \/ EndOfLog

Spec == Init /\ [][Next]_vars

(***************************************************************************)
(* get_with_retries (lines 29-58) and what its two callers make of the     *)
(* result: parse_replay_log (lines 91-101), which calls it with the        *)
(* defaults, and fetch_replays (lines 288-300), which hands on its own     *)
(* max_retries and delay.  delay is a float in the code; the model runs    *)
(* whole seconds.                                                          *)
(***************************************************************************)
\* the defaults of get_with_retries (lines 32 and 34)
default_max_retries == 3
default_delay == 1

min(a, b) == IF a < b THEN a ELSE b

\* a variant of backoff that sleeps after every failed attempt
backoff_after_every_failure(a, m, d) == Some(min(2^a, d * 5))

\* lines 56-57: the sleep after failed attempt a of m, None for no sleep
backoff(a, m, d) == IF a < m THEN Some(min(2^a, d * 5)) ELSE None

RetriesInit ==
  /\ caller \in {"parse_replay_log", "fetch_replays"}
  /\ max_retries \in 0..MaxRetries
  /\ delay \in 0..MaxDelay
  /\ caller = "parse_replay_log" =>
       (max_retries = default_max_retries /\ delay = default_delay)
  /\ rt_pc = "call"
  /\ attempt = 0
  /\ resp = None
  /\ requests = 0
  /\ failed = 0
  /\ slept = <<>>
  /\ ret = "pending"
  /\ InterpreterIdle
  /\ PagingIdle

\* line 49: range(1, max_retries + 1) is empty for max_retries < 1
EnterLoop ==
  /\ rt_pc = "call"
  /\ IF max_retries >= 1
       THEN attempt' = 1 /\ rt_pc' = "try"
       ELSE attempt' = attempt /\ rt_pc' = "exhausted"
  /\ UNCHANGED <<caller, max_retries, delay, resp, requests, failed, slept, ret>>
  /\ UNCHANGED <<interp_vars, page_vars>>

\* lines 50-53: the request succeeds and the response is returned at once
RequestOk ==
  /\ rt_pc = "try"
  /\ requests' = requests + 1
  /\ resp' = Some("response")
  /\ rt_pc' = "returned"
  /\ UNCHANGED <<caller, max_retries, delay, attempt, failed, slept, ret>>
  /\ UNCHANGED <<interp_vars, page_vars>>

\* lines 50-57: requests.get or raise_for_status raises; the sleep of
\* lines 56-57, then the next attempt or the end of the loop
RequestFails ==
  /\ rt_pc = "try"
  /\ requests' = requests + 1
  /\ failed' = failed + 1
  /\ slept' = IF backoff(attempt, max_retries, delay) = None
                THEN slept
                ELSE Append(slept, backoff(attempt, max_retries, delay)[1])
  /\ IF attempt < max_retries
       THEN attempt' = attempt + 1 /\ rt_pc' = "try"
       ELSE attempt' = attempt /\ rt_pc' = "exhausted"
  /\ UNCHANGED <<caller, max_retries, delay, resp, ret>>
  /\ UNCHANGED <<interp_vars, page_vars>>

\* line 58
ReturnNone ==
  /\ rt_pc = "exhausted"
  /\ resp' = None
  /\ rt_pc' = "returned"
  /\ UNCHANGED <<caller, max_retries, delay, attempt, requests, failed, slept, ret>>
  /\ UNCHANGED <<interp_vars, page_vars>>

\* the caller's next statement, with what it does
React(who, outcome) ==
  /\ rt_pc = "returned"
  /\ caller = who
  /\ ret' = outcome
  /\ rt_pc' = "done"
  /\ UNCHANGED <<caller, max_retries, delay, attempt, resp, requests, failed, slept>>
  /\ UNCHANGED <<interp_vars, page_vars>>

\* parse_replay_log, lines 93-95: no response, return {}
ParseNoResponse == resp = None /\ React("parse_replay_log", "empty_record")

\* parse_replay_log, lines 97-101: the body is not JSON, return {}
ParseBadJson == resp # None /\ React("parse_replay_log", "empty_record")

\* parse_replay_log, lines 97-98: the body is JSON, on to the interpreter
ParseInterpret == resp # None /\ React("parse_replay_log", "interpret")

\* fetch_replays, lines 290-293: no response, return None
SearchNoResponse == resp = None /\ React("fetch_replays", "return_None")

\* fetch_replays, lines 295-300: the body is not JSON, return None
SearchBadJson == resp # None /\ React("fetch_replays", "return_None")

\* fetch_replays, lines 295-296: the body is JSON, on to the page
SearchPage == resp # None /\ React("fetch_replays", "page")

RetriesNext ==
  \/ EnterLoop
  \/ RequestOk
  \/ RequestFails
  \/ ReturnNone
  \/ ParseNoResponse
  \/ ParseBadJson
  \/ ParseInterpret
  \/ SearchNoResponse
  \/ SearchBadJson
  \/ SearchPage

Retries == RetriesInit /\ [][RetriesNext]_vars

(***************************************************************************)
(* The pagination loops: fetch_replays (src/fetch_replays.py, lines        *)
(* 283-330) and fetch_replay_ids (src/fetch_replay_ids.py, lines 71-116).  *)
(* The search API is no part of the repository.  It holds a fixed set of   *)
(* replays of the format and answers a request with the PageSize newest    *)
(* of those uploaded before the cursor; whether `before' itself is         *)
(* included is not settled by the source, so both readings are run.        *)
(* parse_replay_log is taken by its outcomes: it returns {} or raises.     *)
(***************************************************************************)
Replays == {"r1", "r2", "r3"}

\* the replays the API can return for the cursor b
Eligible(b) ==
  {r \in Replays : IF api_inclusive THEN uploadtime[r] <= b ELSE uploadtime[r] < b}

\* batch is a page for the cursor b: the newest PageSize replays, ties broken anyhow
IsPage(batch, b) ==
  /\ batch \subseteq Eligible(b)
  /\ Cardinality(batch) = min(PageSize, Cardinality(Eligible(b)))
  /\ \A r \in batch : \A q \in Eligible(b) \ batch : uploadtime[r] >= uploadtime[q]

\* min(data, key=uploadtime)['uploadtime'], fetched["uploadtime"].min()
MinUploadtime(batch) ==
  CHOOSE t \in {uploadtime[r] : r \in batch} : \A r \in batch : t <= uploadtime[r]

\* fetch_replays line 283, fetch_replay_ids line 71
LoopCondition ==
  IF prog = "fetch_replays" THEN before >= start_unix ELSE before > start_unix

PagingInit ==
  /\ prog \in {"fetch_replays", "fetch_replay_ids"}
  /\ api_inclusive \in BOOLEAN
  /\ uploadtime \in [Replays -> 1..MaxTime]
  /\ start_unix \in 1..MaxTime
  /\ end_unix \in 1..(MaxTime + 1)
  /\ before = end_unix
  /\ pg_pc = "while"
  /\ page_data = {}
  /\ temp = 0
  /\ unparsed = {}
  /\ csv = [r \in Replays |-> 0]
  /\ n_pages = 0
  /\ InterpreterIdle
  /\ RetryIdle

\* the loop condition fails: the closing print, the function ends
LoopExit ==
  /\ pg_pc = "while"
  /\ ~LoopCondition
  /\ pg_pc' = "finished"
  /\ UNCHANGED <<prog, api_inclusive, uploadtime, start_unix, end_unix, before,
                 page_data, temp, unparsed, csv, n_pages>>
  /\ UNCHANGED <<interp_vars, retry_vars>>

\* no response after the retries, or a body that is not JSON: the function
\* returns (fetch_replays 290-300, fetch_replay_ids 92-98)
SearchFails ==
  /\ pg_pc = "while"
  /\ LoopCondition
  /\ n_pages < MaxPages
  /\ n_pages' = n_pages + 1
  /\ pg_pc' = "failed"
  /\ UNCHANGED <<prog, api_inclusive, uploadtime, start_unix, end_unix, before,
                 page_data, temp, unparsed, csv>>
  /\ UNCHANGED <<interp_vars, retry_vars>>

\* the API has nothing before the cursor: `if not data', the function
\* returns (fetch_replays 302-305, fetch_replay_ids 84-86)
EmptyBatch ==
  /\ pg_pc = "while"
  /\ LoopCondition
  /\ n_pages < MaxPages
  /\ Eligible(before) = {}
  /\ n_pages' = n_pages + 1
  /\ pg_pc' = "empty"
  /\ UNCHANGED <<prog, api_inclusive, uploadtime, start_unix, end_unix, before,
                 page_data, temp, unparsed, csv>>
  /\ UNCHANGED <<interp_vars, retry_vars>>

\* a page arrives: temp is its smallest uploadtime, and the replays
\* uploaded before start_unix are dropped (fetch_replays 307-311,
\* fetch_replay_ids 100-104)
FetchPage ==
  /\ pg_pc = "while"
  /\ LoopCondition
  /\ n_pages < MaxPages
  /\ \E batch \in SUBSET Replays :
       /\ batch # {}
       /\ IsPage(batch, before)
       /\ temp' = MinUploadtime(batch)
       /\ page_data' = {r \in batch : uploadtime[r] >= start_unix}
  /\ unparsed' = IF prog = "fetch_replays" THEN page_data' ELSE {}
  /\ pg_pc' = IF unparsed' # {} THEN "parse" ELSE "write"
  /\ n_pages' = n_pages + 1
  /\ UNCHANGED <<prog, api_inclusive, uploadtime, start_unix, end_unix, before, csv>>
  /\ UNCHANGED <<interp_vars, retry_vars>>

\* fetch_replays 313-315: parse_replay_log(d['id']) returned {} (the replay
\* could not be fetched, or its body was not JSON) and d.update({}) ran
ParseReturnsEmpty ==
  /\ pg_pc = "parse"
  /\ \E r \in unparsed : unparsed' = unparsed \ {r}
  /\ pg_pc' = IF unparsed' # {} THEN "parse" ELSE "write"
  /\ UNCHANGED <<prog, api_inclusive, uploadtime, start_unix, end_unix, before,
                 page_data, temp, csv, n_pages>>
  /\ UNCHANGED <<interp_vars, retry_vars>>

\* fetch_replays 313-315: parse_replay_log raised (a replay that was fetched
\* ends in the NameError of line 228 at the latest); nothing catches it
ParseRaises ==
  /\ pg_pc = "parse"
  /\ pg_pc' = "aborted"
  /\ UNCHANGED <<prog, api_inclusive, uploadtime, start_unix, end_unix, before,
                 page_data, temp, unparsed, csv, n_pages>>
  /\ UNCHANGED <<interp_vars, retry_vars>>

\* the page is appended to the CSV and the cursor moves to temp
\* (fetch_replays 321-328, fetch_replay_ids 106-114)
AppendAndAdvance ==
  /\ pg_pc = "write"
  /\ csv' = [r \in Replays |-> csv[r] + (IF r \in page_data THEN 1 ELSE 0)]
  /\ before' = temp
  /\ pg_pc' = "while"
  /\ UNCHANGED <<prog, api_inclusive, uploadtime, start_unix, end_unix, page_data,
                 temp, unparsed, n_pages>>
  /\ UNCHANGED <<interp_vars, retry_vars>>

PagingNext ==
  \/ LoopExit
  \/ SearchFails
  \/ EmptyBatch
  \/ FetchPage
  \/ ParseReturnsEmpty
  \/ ParseRaises
  \/ AppendAndAdvance

Paging == PagingInit /\ [][PagingNext]_vars

(***************************************************************************)
(* What the statements below read off a state                              *)
(***************************************************************************)
\* the statistics of one combatant, the defaults when it has no entry
Stats(player_id, nickname) == GetPokemon(Locals, player_id, nickname)

\* the same after the step
After(player_id, nickname) == GetPokemon(Locals', player_id, nickname)

RECURSIVE SumOver(_, _, _)
SumOver(table, keys, field) ==
  IF keys = {} THEN 0
  ELSE LET k == CHOOSE x \in keys : TRUE
       IN  table[k][field] + SumOver(table, keys \ {k}, field)

\* the sum of one field over the combatants of a side
Total(player_id, field) ==
  SumOver(Side(Locals, player_id), DOMAIN Side(Locals, player_id), field)

Combatants ==
  UNION {{<<player_id, nickname>> : nickname \in DOMAIN pokemon_stats[player_id]} :
           player_id \in DOMAIN pokemon_stats}

BothActive == p1 \in DOMAIN active_pokemon /\ p2 \in DOMAIN active_pokemon

\* the step that interprets the -damage line `parts'
DamageStep(parts) == Step(on_damage(Locals, parts)) /\ UNCHANGED faints

\* the -damage lines of Lines that report a health, with the combatant the line
\* names and the health it reports, as written in the line
ReportedDamage ==
  {[parts |-> L_damage_A1, player_id |-> p1, nickname |-> nickA, hp |-> 1],
   [parts |-> L_damage_A3, player_id |-> p1, nickname |-> nickA, hp |-> 3],
   [parts |-> L_damage_B2, player_id |-> p1, nickname |-> nickB, hp |-> 2],
   [parts |-> L_damage_C_fnt, player_id |-> p2, nickname |-> nickC, hp |-> 0]}

\* the lines of Lines with tag move, -damage, -status or faint, with the
\* combatant each names
NamingLines ==
  {[parts |-> L_move_A, player_id |-> p1, nickname |-> nickA],
   [parts |-> L_move_B, player_id |-> p1, nickname |-> nickB],
   [parts |-> L_status_C, player_id |-> p2, nickname |-> nickC],
   [parts |-> L_damage_A1, player_id |-> p1, nickname |-> nickA],
   [parts |-> L_damage_A3, player_id |-> p1, nickname |-> nickA],
   [parts |-> L_damage_B2, player_id |-> p1, nickname |-> nickB],
   [parts |-> L_damage_C_fnt, player_id |-> p2, nickname |-> nickC],
   [parts |-> L_damage_C_psn, player_id |-> p2, nickname |-> nickC],
   [parts |-> L_damage_bad, player_id |-> p1, nickname |-> nickA],
   [parts |-> L_faint_C, player_id |-> p2, nickname |-> nickC],
   [parts |-> L_faint_B, player_id |-> p1, nickname |-> nickB]}

\* the step that interprets the line `parts', whatever its tag
LineStep(parts) ==
  \/ Tagged(parts, t_move) /\ Step(on_move(Locals, parts))
  \/ Tagged(parts, t_status) /\ Step(on_status(Locals, parts))
  \/ Tagged(parts, t_damage) /\ Step(on_damage(Locals, parts))
  \/ Tagged(parts, t_faint) /\ Step(on_faint(Locals, parts))

NoDuplicates(seq) == \A i, j \in 1..Len(seq) : seq[i] = seq[j] => i = j

\* the first species of a side's roster, None for a side without one
Lead(player_id) ==
  IF player_id \in DOMAIN player_stats /\ player_stats[player_id].team_order # <<>>
    THEN Some(player_stats[player_id].team_order[1])
    ELSE None

(***************************************************************************)
(* C1.  Each side's roster holds no species twice, and once the log is     *)
(* read to its end parse_replay_log returns a record whose p1_lead and     *)
(* p2_lead are the first species of the side's roster (absent for a side   *)
(* without a switch or drag).                                              *)
(* The rosters are duplicate-free; the record is never returned, since     *)
(* building it raises NameError.                                           *)
(***************************************************************************)
C1_RosterAndLead ==
  /\ \A player_id \in DOMAIN player_stats :
       NoDuplicates(player_stats[player_id].team_order)
  /\ eof =>
       /\ Len(results) = done + 1
       /\ results[Len(results)] # <<>>
       /\ results[Len(results)].p1_lead = Lead(p1)
       /\ results[Len(results)].p2_lead = Lead(p2)

(***************************************************************************)
(* C2.  A -damage line that reports a health and is tallied adds the same  *)
(* amount, the victim side's recorded health minus the reported one, to    *)
(* damage_dealt of the opposing side's active combatant and to             *)
(* damage_received of the combatant the line names; and after every step   *)
(* the damage_dealt of one side sums to the damage_received of the other.  *)
(***************************************************************************)
DamageSumsAgree ==
  /\ Total(p1, "damage_dealt") = Total(p2, "damage_received")
  /\ Total(p2, "damage_dealt") = Total(p1, "damage_received")

C2_DamageSymmetric ==
  [][/\ DamageSumsAgree'
     /\ \A d \in ReportedDamage :
          (BothActive /\ Len(d.parts) = 4 /\ DamageStep(d.parts) /\ exc' = "none") =>
            LET attacker == Opponent(d.player_id)
                delta == active_pokemon[d.player_id].hp - d.hp
            IN  /\ After(attacker, active_pokemon[attacker].nickname).damage_dealt
                     = Stats(attacker, active_pokemon[attacker].nickname).damage_dealt + delta
                /\ After(d.player_id, d.nickname).damage_received
                     = Stats(d.player_id, d.nickname).damage_received + delta]_vars

\* 3/3 to 1/3: 2 dealt by C, 2 received by A
C2_Witness ==
  /\ Stats(p2, nickC).damage_dealt = 2
  /\ Stats(p1, nickA).damage_received = 2
  /\ BothActive
  /\ active_pokemon[p1].hp = 1

(***************************************************************************)
(* C3.  No damage_dealt and no damage_received is ever negative (no        *)
(* -damage line adds a negative amount).                                   *)
(* The code adds old_hp - new_hp as it is.                                 *)
(***************************************************************************)
C3_NeverNegative ==
  \A c \in Combatants :
    Stats(c[1], c[2]).damage_dealt >= 0 /\ Stats(c[1], c[2]).damage_received >= 0

(***************************************************************************)
(* C4.  A -status, -damage or -sidestart line met while a side it needs    *)
(* has no active combatant does not end the interpretation.                *)
(* The lookup active_pokemon[...] raises KeyError, which nothing catches.  *)
(***************************************************************************)
C4_MissingActiveSkipped == ~(pc = "aborted" /\ exc = "KeyError")

(***************************************************************************)
(* C5.  A malformed line (too few fields, a numeric field that is no       *)
(* integer, a -damage payload with neither '/' nor 'fnt') raises nothing   *)
(* and the rest of the log is interpreted.                                 *)
(* Such a line raises IndexError, ValueError or UnboundLocalError.         *)
(***************************************************************************)
C5_MalformedLineSkipped ==
  ~(pc = "aborted" /\ exc \in {"IndexError", "ValueError", "UnboundLocalError"})

(***************************************************************************)
(* C6.  A move, -damage, -status or faint line naming a nickname that no   *)
(* switch or drag of that side has bound to a species changes nothing in   *)
(* the tables.                                                             *)
(* The defaultdict creates the entry, without a species, and counts.       *)
(***************************************************************************)
C6_UnknownNicknameIgnored ==
  [][\A l \in NamingLines :
       (Stats(l.player_id, l.nickname).species = None /\ LineStep(l.parts)) =>
         UNCHANGED <<pokemon_stats, player_stats, active_pokemon>>]_vars

(***************************************************************************)
(* C7.  No failure while interpreting one replay leaves parse_replay_log   *)
(* as an exception or keeps fetch_replays from the replays that remain.    *)
(* Every exception of the interpreter leaves fetch_replays.                *)
(***************************************************************************)
C7_FailureStaysLocal == pc # "aborted"

(***************************************************************************)
(* C8.  A direct -damage line with payload '0 fnt', both sides having an   *)
(* active combatant, adds in that one step the victim side's recorded      *)
(* health to damage_dealt and one to n_ko_dealt of the opposing side's     *)
(* active combatant, records health 0 for the victim side, and leaves the  *)
(* n_ko_received of the victim as it was.                                  *)
(***************************************************************************)
C8_FaintingDamage ==
  [][(BothActive /\ DamageStep(L_damage_C_fnt)) =>
       LET attacker == active_pokemon[p1].nickname
       IN  /\ exc' = "none"
           /\ After(p1, attacker).damage_dealt
                = Stats(p1, attacker).damage_dealt + active_pokemon[p2].hp
           /\ After(p1, attacker).n_ko_dealt = Stats(p1, attacker).n_ko_dealt + 1
           /\ active_pokemon'[p2] = [nickname |-> nickC, hp |-> 0]
           /\ After(p2, nickC).n_ko_received = Stats(p2, nickC).n_ko_received]_vars

\* C fainted from 3/3 against A, and no faint line was read
C8_Witness ==
  /\ Stats(p1, nickA).n_ko_dealt = 1
  /\ Stats(p1, nickA).damage_dealt = 3
  /\ p2 \in DOMAIN active_pokemon
  /\ active_pokemon[p2].hp = 0
  /\ faints = <<>>
  /\ Stats(p2, nickC).n_ko_received = 0

(***************************************************************************)
(* C9.  After every step the n_ko_received of each combatant is the number *)
(* of faint lines read so far that name it, and a faint line changes no    *)
(* n_ko_dealt.                                                             *)
(***************************************************************************)
KoReceivedIsFaints ==
  /\ \A c \in Combatants :
       Stats(c[1], c[2]).n_ko_received = (IF c \in DOMAIN faints THEN faints[c] ELSE 0)
  /\ DOMAIN faints \subseteq Combatants

C9_KoReceivedCountsFaints ==
  [][/\ KoReceivedIsFaints'
     /\ Faint =>
          \A c \in Combatants' :
            After(c[1], c[2]).n_ko_dealt = Stats(c[1], c[2]).n_ko_dealt]_vars

\* two faint lines named C while A was active on the other side
C9_Witness ==
  /\ <<p2, nickC>> \in DOMAIN faints
  /\ faints[<<p2, nickC>>] = 2
  /\ Stats(p2, nickC).n_ko_received = 2
  /\ p1 \in DOMAIN active_pokemon

(***************************************************************************)
(* C10.  The turns_on_field of a side's combatants sum to at most the      *)
(* number of turn lines read plus one.                                     *)
(* Every win line credits a turn, and the loop reads on after a win line.  *)
(***************************************************************************)
C10_TurnsBounded ==
  \A player_id \in DOMAIN pokemon_stats : Total(player_id, "turns_on_field") <= n_turns + 1

(***************************************************************************)
(* C11.  A -status line of exactly four parts (tag, victim, status), read  *)
(* while the opposing side has an active combatant, adds one to            *)
(* status_dealt of that combatant and one to status_received of the victim *)
(* the line names, and nothing else to either counter of any combatant; a  *)
(* -status line with a further field changes no table and raises nothing.  *)
(***************************************************************************)
StatusStep(parts) == Step(on_status(Locals, parts)) /\ UNCHANGED faints

\* the combatants other than the two a four-part -status on C touches
Bystanders(attacker) == Combatants' \ {<<p1, attacker>>, <<p2, nickC>>}

C11_StatusAttribution ==
  [][/\ (p1 \in DOMAIN active_pokemon /\ StatusStep(L_status_C)) =>
          LET attacker == active_pokemon[p1].nickname
          IN  /\ exc' = "none"
              /\ After(p1, attacker).status_dealt = Stats(p1, attacker).status_dealt + 1
              /\ After(p2, nickC).status_received = Stats(p2, nickC).status_received + 1
              /\ After(p1, attacker).status_received = Stats(p1, attacker).status_received
              /\ After(p2, nickC).status_dealt = Stats(p2, nickC).status_dealt
              /\ \A c \in Bystanders(attacker) :
                    /\ After(c[1], c[2]).status_dealt = Stats(c[1], c[2]).status_dealt
                    /\ After(c[1], c[2]).status_received = Stats(c[1], c[2]).status_received
     /\ StatusStep(L_status_C_from) =>
          /\ exc' = "none"
          /\ UNCHANGED <<pokemon_stats, player_stats, active_pokemon>>]_vars

\* C was given a status while A was active on the other side
C11_Witness ==
  /\ p1 \in DOMAIN active_pokemon
  /\ active_pokemon[p1].nickname = nickA
  /\ Stats(p1, nickA).status_dealt = 1
  /\ Stats(p2, nickC).status_received = 1
  /\ n_lines >= 3

(***************************************************************************)
(* C12.  parse_replay_log returns the empty record, and raises nothing,    *)
(* for a replay that could not be fetched, for a body that is not JSON,    *)
(* and for a document without a 'log' field.                               *)
(* The first two return {} (FetchFailed).  A document without a 'log'      *)
(* field is read as the one-line log '' and the row is built all the same, *)
(* which raises NameError.                                                 *)
(***************************************************************************)
C12_UnreadableYieldsEmpty ==
  /\ \A i \in 1..Len(results) : results[i] = <<>>
  /\ ~has_log => pc # "aborted"

(***************************************************************************)
(* C13.  Only a player line changes a name or a rating, so both stay null  *)
(* for a log without player lines, and a player line changes no roster, no *)
(* combatant and not the winner; only a win line changes the winner, and   *)
(* a win line that raises nothing sets it, so the winner is null exactly   *)
(* when no win line was read; and at the end of the log parse_replay_log   *)
(* returns a record with these names, ratings and winner.                  *)
(* All but the last hold; no record is returned, since building it raises  *)
(* NameError.                                                              *)
(***************************************************************************)
C13_RecordWithoutPlayers ==
  [][/\ ~Player =>
          \A player_id \in {p1, p2} :
            /\ GetPlayer(Locals', player_id).name = GetPlayer(Locals, player_id).name
            /\ GetPlayer(Locals', player_id).elo = GetPlayer(Locals, player_id).elo
     /\ Player =>
          /\ UNCHANGED <<pokemon_stats, active_pokemon, n_turns>>
          /\ \A player_id \in {p1, p2} :
               GetPlayer(Locals', player_id).team_order
                 = GetPlayer(Locals, player_id).team_order
     /\ ~Win => winner' = winner
     /\ (Win /\ exc' = "none") => winner' # None
     /\ eof' =>
          /\ pc' # "aborted"
          /\ Len(results') = done + 1
          /\ results'[Len(results')] # <<>>
          /\ results'[Len(results')].p1_name = GetPlayer(Locals', p1).name
          /\ results'[Len(results')].p2_name = GetPlayer(Locals', p2).name
          /\ results'[Len(results')].p1_elo = GetPlayer(Locals', p1).elo
          /\ results'[Len(results')].p2_elo = GetPlayer(Locals', p2).elo
          /\ results'[Len(results')].winner = winner']_vars

\* the conjuncts of C13 that do not read the record
C13_LocalsOnly ==
  [][/\ ~Player =>
          \A player_id \in {p1, p2} :
            /\ GetPlayer(Locals', player_id).name = GetPlayer(Locals, player_id).name
            /\ GetPlayer(Locals', player_id).elo = GetPlayer(Locals, player_id).elo
     /\ Player =>
          /\ UNCHANGED <<pokemon_stats, active_pokemon, n_turns>>
          /\ \A player_id \in {p1, p2} :
               GetPlayer(Locals', player_id).team_order
                 = GetPlayer(Locals, player_id).team_order
     /\ ~Win => winner' = winner
     /\ (Win /\ exc' = "none") => winner' # None]_vars

(***************************************************************************)
(* C16.  A switch or drag line never changes the species already recorded  *)
(* for a nickname of a side (the first binding wins).                      *)
(* Line 162 assigns the species of every switch or drag line.              *)
(***************************************************************************)
C16_FirstBindingWins ==
  [][SwitchOrDrag =>
       \A c \in Combatants :
         Stats(c[1], c[2]).species # None =>
           After(c[1], c[2]).species = Stats(c[1], c[2]).species]_vars

(***************************************************************************)
(* C17.  A -damage or -heal line that raises nothing leaves the nickname   *)
(* of every side's active combatant as the last switch or drag of the side *)
(* set it: it changes the health alone.                                    *)
(* Lines 207 and 211 store the nickname the line names.                    *)
(***************************************************************************)
C17_HealthKeepsNickname ==
  [][((Damage \/ Heal) /\ exc' = "none") =>
       \A player_id \in DOMAIN active_pokemon :
         /\ player_id \in DOMAIN active_pokemon'
         /\ active_pokemon'[player_id].nickname = active_pokemon[player_id].nickname]_vars

(***************************************************************************)
(* C18.  A -heal, -sidestart, -sideend, weather or teamsize line, or a     *)
(* line with a tag no branch names, changes no combatant's statistics and  *)
(* no roster, and raises nothing, whatever the state.                      *)
(* The tables are left alone, but -sidestart raises KeyError without an    *)
(* opposing active combatant and -sideend raises IndexError on a payload   *)
(* of fewer than six parts.                                                *)
(***************************************************************************)
Untallied == Heal \/ SideStart \/ SideEnd \/ Teamsize \/ Ignored

RostersUnchanged ==
  \A player_id \in {p1, p2} :
    GetPlayer(Locals', player_id).team_order = GetPlayer(Locals, player_id).team_order

C18_UntalliedNeverRaise ==
  [][Untallied => (UNCHANGED pokemon_stats /\ RostersUnchanged /\ exc' = "none")]_vars

\* the frame half of C18: the tables are left alone
C18_FrameOnly ==
  [][Untallied => (UNCHANGED pokemon_stats /\ RostersUnchanged)]_vars

(***************************************************************************)
(* C19.  A -damage line of five parts (indirect damage), read while both   *)
(* sides have an active combatant, raises nothing, records the health it   *)
(* reports for the victim's side and changes no combatant's statistics;    *)
(* so does one whose payload is the faint marker '0 fnt'.                  *)
(* With '0 fnt' line 206 computes int('0 fnt'), a ValueError.              *)
(***************************************************************************)
\* the five-part -damage lines of Lines, with the health each reports
IndirectDamage ==
  {[parts |-> L_damage_C_psn, hp |-> 2], [parts |-> L_damage_C_fnt_from, hp |-> 0]}

C19_IndirectDamage ==
  [][\A d \in IndirectDamage :
       (BothActive /\ DamageStep(d.parts)) =>
         /\ exc' = "none"
         /\ UNCHANGED pokemon_stats
         /\ active_pokemon'[p2] = [nickname |-> nickC, hp |-> d.hp]]_vars

\* the half of C19 that holds: a payload '<hp>/<max>'
C19_IndirectSlashOnly ==
  [][(BothActive /\ DamageStep(L_damage_C_psn)) =>
       /\ exc' = "none"
       /\ UNCHANGED pokemon_stats
       /\ active_pokemon'[p2] = [nickname |-> nickC, hp |-> 2]]_vars

(***************************************************************************)
(* C15.  One call of get_with_retries issues at most max_retries requests; *)
(* a request that succeeds is the last one and its response is returned;   *)
(* the call sleeps only after a failed attempt that is not the last, for   *)
(* min(2^attempt, 5*delay) seconds; it returns None only when max_retries  *)
(* requests were issued and all failed, and once all have failed nothing   *)
(* else is returned; and parse_replay_log, given None, returns the empty   *)
(* record and does not go on to interpret.                                 *)
(***************************************************************************)
C15_BoundedRetries ==
  [][/\ requests' <= max_retries
     /\ RequestOk => (rt_pc' = "returned" /\ resp' # None /\ requests' = failed + 1)
     /\ rt_pc \in {"returned", "done"} => (requests' = requests /\ slept' = slept)
     /\ RequestFails =>
          slept' = IF attempt < max_retries
                     THEN Append(slept, min(2^attempt, 5 * delay))
                     ELSE slept
     /\ ~RequestFails => slept' = slept
     /\ (rt_pc' = "returned" /\ resp' = None) =>
          /\ requests' = max_retries
          /\ failed' = max_retries
          /\ Len(slept') = IF max_retries = 0 THEN 0 ELSE max_retries - 1
     /\ (failed' = max_retries /\ rt_pc' \in {"returned", "done"}) => resp' = None
     /\ (caller = "parse_replay_log" /\ rt_pc = "returned" /\ resp = None) =>
          ret' = "empty_record"]_vars

\* parse_replay_log's call: three requests failed, sleeps of 2 and 4 seconds
\* between them, None came back and the empty record was returned
C15_Witness ==
  /\ caller = "parse_replay_log"
  /\ rt_pc = "done"
  /\ resp = None
  /\ requests = 3
  /\ slept = <<2, 4>>
  /\ ret = "empty_record"

(***************************************************************************)
(* C14.  Against an API that returns the newest replays uploaded strictly  *)
(* before the cursor, one page at a time, a run of fetch_replays or of     *)
(* fetch_replay_ids that ends without a failed request and without an      *)
(* exception has written every replay with start_unix <= uploadtime <      *)
(* end_unix to the CSV exactly once and no other replay.                   *)
(* A replay that shares the smallest uploadtime of a page but was not on   *)
(* that page is never written: the next cursor is that uploadtime.         *)
(***************************************************************************)
InRange(r) == start_unix <= uploadtime[r] /\ uploadtime[r] < end_unix

Completed == pg_pc \in {"finished", "empty"}

C14_EveryReplayOnce ==
  (Completed /\ ~api_inclusive) =>
    \A r \in Replays : csv[r] = (IF InRange(r) THEN 1 ELSE 0)

\* the half of C14 that holds: nothing outside the range is written, and
\* nothing twice
C14_NothingElse ==
  (pg_pc # "idle" /\ ~api_inclusive) =>
    \A r \in Replays : csv[r] <= (IF InRange(r) THEN 1 ELSE 0)

(***************************************************************************)
(* C20.  Every iteration of either pagination loop that does not return    *)
(* moves the cursor `before' to a strictly smaller value, whatever the     *)
(* page, also when the smallest uploadtime of the page is the cursor.      *)
(* `before = temp' is all the code does: with a page whose smallest        *)
(* uploadtime is the cursor the cursor stays and the same request is sent  *)
(* again.                                                                  *)
(***************************************************************************)
C20_CursorDecreases == [][AppendAndAdvance => before' < before]_vars

\* against an API that excludes the cursor the loops do make progress and
\* are never cut by MaxPages
C20_StrictApiProgress ==
  [][~api_inclusive =>
       /\ AppendAndAdvance => before' < before
       /\ (pg_pc' = "while" /\ LoopCondition') => n_pages' < MaxPages]_vars

=============================================================================
